---- MODULE Spec2Model ----
(***************************************************************************)
(* A model of scraper.py, the j-archive scraper: the clue extractor        *)
(* (format_clue, scrape_clues, scrape_episode), the dataset writer         *)
(* (to_csv) and the batch runner (scrape_all) with its resume logic.       *)
(*                                                                         *)
(* Python strings that the code takes apart (clue identifiers) are         *)
(* sequences of one-character strings; Python lists are sequences, indexed *)
(* from 0 in the code and from 1 here.                                     *)
(***************************************************************************)
EXTENDS Integers, Sequences, FiniteSets, TLC

VARIABLES
    id_order,     \* content of id_order.json (load_id_order)
    csv,          \* the output dataset file: [exists, lines]
    errlog,       \* errors.txt: [exists, entries]
    pc,           \* where the current call of scrape_all is
    raised,       \* the exception that ended the call, "none" otherwise
    resume,       \* scrape_all's resume argument
    crawl_delay,  \* scrape_all's crawl_delay argument
    done_ids,     \* scrape_all's local done_ids (empty while it is not assigned)
    ids,          \* scrape_all's local ids
    idx,          \* 0-based position of the for loop in ids
    events,       \* what the current call did, in order (observation)
    csv0,         \* the dataset file as the current call found it (observation)
    prior,        \* per identifier, what the earlier calls did with it (observation)
    runs,         \* number of calls of scrape_all started so far
    probe         \* input and result of a stand-alone call of format_clue

vars == <<id_order, csv, errlog, pc, raised, resume, crawl_delay, done_ids,
          ids, idx, events, csv0, prior, runs, probe>>

-----------------------------------------------------------------------------
(* Bounds of the model *)

\* Episode identifiers are 1..NumIds.
NumIds == 2
\* The persisted identifier order has at most MaxOrderLen entries.
MaxOrderLen == 2
\* scrape_all is called at most MaxRuns times.
MaxRuns == 2
\* Category and row numbers written in clue identifiers range over 0..MaxIndex.
MaxIndex == 6

(* Program constants *)

\* value of the first row of the first round
BaseValue == 200
\* number of first-round categories, the second round's offset in the list
RoundOffset == 6
\* the crawl delay the entry point passes
MainCrawlDelay == 2

-----------------------------------------------------------------------------
(* Python string and list primitives *)

Digits == <<"0", "1", "2", "3", "4", "5", "6", "7", "8", "9">>

IsDigit(ch) == \E d \in 1..10 : Digits[d] = ch

DigitVal(ch) == (CHOOSE d \in 1..10 : Digits[d] = ch) - 1

\* str(n) for n >= 0, as a sequence of characters
RECURSIVE str(_)
str(n) == IF n < 10 THEN <<Digits[n + 1]>>
          ELSE str(n \div 10) \o <<Digits[(n % 10) + 1]>>

\* s.strip(): leading and trailing blanks removed
RECURSIVE lstrip(_)
lstrip(s) == IF s # <<>> /\ Head(s) = " " THEN lstrip(Tail(s)) ELSE s

RECURSIVE rstrip(_)
rstrip(s) == IF s # <<>> /\ s[Len(s)] = " "
             THEN rstrip(SubSeq(s, 1, Len(s) - 1)) ELSE s

strip(s) == rstrip(lstrip(s))

\* the value of a non-empty sequence of digits
RECURSIVE DigitsVal(_)
DigitsVal(s) == IF Len(s) = 1 THEN DigitVal(s[1])
                ELSE 10 * DigitsVal(SubSeq(s, 1, Len(s) - 1)) + DigitVal(s[Len(s)])

\* the value of a literal without blanks around it: one sign is accepted,
\* anything but digits raises ValueError
literal(t) ==
    IF t # <<>> /\ t[1] \in {"+", "-"}
    THEN IF Len(t) > 1 /\ \A k \in 2..Len(t) : IsDigit(t[k])
         THEN [exc |-> "none",
               val |-> IF t[1] = "-" THEN 0 - DigitsVal(Tail(t)) ELSE DigitsVal(Tail(t))]
         ELSE [exc |-> "ValueError", val |-> 0]
    ELSE IF t # <<>> /\ \A k \in 1..Len(t) : IsDigit(t[k])
         THEN [exc |-> "none", val |-> DigitsVal(t)]
         ELSE [exc |-> "ValueError", val |-> 0]

\* int(s): blanks around the literal are dropped
int(s) == literal(strip(s))

\* s.split(sep) for a one-character separator
RECURSIVE split(_, _)
split(s, sep) ==
    IF \A k \in 1..Len(s) : s[k] # sep THEN <<s>>
    ELSE LET p == CHOOSE k \in 1..Len(s) :
                      s[k] = sep /\ \A j \in 1..(k - 1) : s[j] # sep
         IN <<SubSeq(s, 1, p - 1)>> \o split(SubSeq(s, p + 1, Len(s)), sep)

\* sub in s
contains(s, sub) ==
    \E k \in 1..(Len(s) - Len(sub) + 1) : SubSeq(s, k, k + Len(sub) - 1) = sub

\* s[-2:]
LastTwo(s) == IF Len(s) <= 2 THEN s ELSE SubSeq(s, Len(s) - 1, Len(s))

\* list[i] of Python: negative indices count from the end, anything outside
\* raises IndexError.
Index(list, i) ==
    IF 0 <= i /\ i < Len(list) THEN [exc |-> "none", val |-> list[i + 1]]
    ELSE IF i < 0 /\ 0 - i <= Len(list)
         THEN [exc |-> "none", val |-> list[Len(list) + i + 1]]
         ELSE [exc |-> "IndexError", val |-> <<>>]

-----------------------------------------------------------------------------
(* The parsed page.  A td of class clue_text is [id, text, ems]: its id as a  *)
(* character sequence, its text, and the texts of the em elements of class   *)
(* correct_response inside it.  A table element (the parent of such a td) is *)
(* the sequence of the clue_text tds below it, in document order.            *)

Chars_clue == <<"c", "l", "u", "e">>

\* the identifier of the final-round clue cell, 'clue_FJ'
clue_FJ == Chars_clue \o <<"_", "F", "J">>

FINAL_JEOPARDY == "FINAL JEOPARDY"

\* what format_clue and its callers hand back when an exception propagates
Raise(e) == [exc |-> e, clue |-> "", answer |-> "", category |-> "", value |-> 0]

\* clue_value with the doubling on the wrong round
clue_value_swapped(dj, row) == IF dj THEN BaseValue * row ELSE BaseValue * row * 2

\* clue_value of format_clue for a clue that is not the final one
clue_value(dj, row) == IF dj THEN BaseValue * row * 2 ELSE BaseValue * row

\* cat_id of format_clue
cat_id_of(dj, cat) == IF dj THEN cat + RoundOffset ELSE cat

\* the dict format_clue returns
out_dict(clue, answer, category, value) ==
    [exc |-> "none", clue |-> clue.text, answer |-> answer,
     category |-> category, value |-> value]

\* format_clue from the category lookup on: cat is categories[cat_id]
format_category(clue, answer, dj, row, cat) ==
    IF cat.exc # "none" THEN Raise(cat.exc)
    ELSE out_dict(clue, answer, cat.val, clue_value(dj, row))

\* format_clue from the two int() calls on: c is int(id_parts[2].strip()),
\* r is int(id_parts[3]); c is evaluated first
format_numbers(clue, answer, dj, c, r, categories) ==
    IF c.exc # "none" THEN Raise(c.exc)
    ELSE IF r.exc # "none" THEN Raise(r.exc)
    ELSE format_category(clue, answer, dj, r.val,
                         Index(categories, cat_id_of(dj, c.val)))

\* format_clue for a clue that is not the final one: p2 and p3 are
\* id_parts[2] and id_parts[3]
format_parts(clue, answer, dj, p2, p3, categories) ==
    IF p2.exc # "none" THEN Raise(p2.exc)
    ELSE IF int(p2.val).exc = "none" /\ p3.exc # "none" THEN Raise(p3.exc)
    ELSE format_numbers(clue, answer, dj, int(p2.val), int(p3.val), categories)

\* format_clue for the final clue: last is categories[-1]
format_final(clue, answer, last) ==
    IF last.exc # "none" THEN Raise(last.exc)
    ELSE out_dict(clue, answer, last.val, FINAL_JEOPARDY)

\* format_clue once clue, answer and clue_id are known
format_id(clue, answer, clue_id, id_parts, categories) ==
    IF clue_id = clue_FJ
    THEN format_final(clue, answer, Index(categories, -1))
    ELSE format_parts(clue, answer, contains(clue_id, <<"D", "J">>),
                      Index(id_parts, 2), Index(id_parts, 3), categories)

\* format_clue(table_element, categories).  With fewer than two clue_text
\* cells the except clause calls breakpoint(): exc is "breakpoint" and what
\* follows is up to the debugger (see DebuggerReturns).
format_clue(table_element, categories) ==
    IF Len(table_element) < 2 THEN Raise("breakpoint")
    ELSE IF table_element[2].ems = <<>> THEN Raise("IndexError")
    ELSE format_id(table_element[1], table_element[2].ems[1],
                   table_element[1].id, split(table_element[1].id, "_"),
                   categories)

\* the table elements scrape_clues formats: the parent of every clue_text td
\* whose id does not end in '_r', once per such td
RECURSIVE table_elements(_)
table_elements(rows) ==
    IF rows = <<>> THEN <<>>
    ELSE LET row == Head(rows)
             keep == {k \in 1..Len(row) : LastTwo(row[k].id) # <<"_", "r">>}
         IN [k \in 1..Cardinality(keep) |-> row] \o table_elements(Tail(rows))

\* what scrape_clues returns for the results out of its format_clue calls:
\* the first exception propagates and no clue list is returned
clues_or_exception(out) ==
    IF \A k \in 1..Len(out) : out[k].exc = "none"
    THEN [exc |-> "none", clues |-> out]
    ELSE [exc |-> out[CHOOSE k \in 1..Len(out) :
                         /\ out[k].exc # "none"
                         /\ \A j \in 1..(k - 1) : out[j].exc = "none"].exc,
          clues |-> <<>>]

format_each(elements, categories) ==
    [k \in 1..Len(elements) |-> format_clue(elements[k], categories)]

\* scrape_clues(soup): [exc, clues]
scrape_clues(soup) ==
    clues_or_exception(format_each(table_elements(soup.rows), soup.categories))

Weekdays == {"Monday", "Tuesday", "Wednesday", "Thursday", "Friday",
             "Saturday", "Sunday"}

Months == <<"January", "February", "March", "April", "May", "June", "July",
            "August", "September", "October", "November", "December">>

\* datetime.strptime(date_str, '%A, %B %d, %Y'); date_str is taken as the
\* four fields the format reads.
strptime(date_str) ==
    IF /\ date_str.weekday \in Weekdays
       /\ \E m \in 1..12 : Months[m] = date_str.month
       /\ date_str.day \in 1..31
       /\ date_str.year \in 1..9999
    THEN [exc |-> "none",
          year |-> date_str.year,
          month |-> CHOOSE m \in 1..12 : Months[m] = date_str.month,
          day |-> date_str.day]
    ELSE [exc |-> "ValueError", year |-> 0, month |-> 0, day |-> 0]

pad(n, width) ==
    LET s == str(n) IN [k \in 1..(width - Len(s)) |-> "0"] \o s

\* date.strftime('%m/%d/%Y')
strftime(date) ==
    pad(date.month, 2) \o <<"/">> \o pad(date.day, 2) \o <<"/">> \o pad(date.year, 4)

NoDate == [year |-> 0, month |-> 0, day |-> 0]

\* scrape_episode from the parsed date on
episode(id, date_obj, got) ==
    IF date_obj.exc # "none"
    THEN [exc |-> date_obj.exc, date |-> NoDate, id |-> id, clues |-> <<>>]
    ELSE IF got.exc # "none"
    THEN [exc |-> got.exc, date |-> NoDate, id |-> id, clues |-> <<>>]
    ELSE [exc |-> "none",
          date |-> [year |-> date_obj.year, month |-> date_obj.month,
                    day |-> date_obj.day],
          id |-> id, clues |-> got.clues]

\* scrape_episode(game_id) on the page the site answers with.  page.status
\* "timeout" is requests.get raising; page.titles are the game_title divs,
\* each the ' - '-separated parts of its first h1 after the first part.
scrape_episode(id, page) ==
    IF page.status # "ok"
    THEN [exc |-> "Timeout", date |-> NoDate, id |-> id, clues |-> <<>>]
    ELSE IF page.titles = <<>> \/ page.titles[1] = <<>>
    THEN [exc |-> "IndexError", date |-> NoDate, id |-> id, clues |-> <<>>]
    ELSE episode(id, strptime(page.titles[1][1]), scrape_clues(page))

-----------------------------------------------------------------------------
(* The pages the site may answer with *)

Ids == 1..NumIds

Td(id, ems) == [id |-> id, text |-> "q", ems |-> ems]

Round_J == <<"J">>
Round_DJ == <<"D", "J">>

\* the id of the clue cell of category number cat and row number row
ClueId(round, cat, row) ==
    Chars_clue \o <<"_">> \o round \o <<"_">> \o str(cat) \o <<"_">> \o str(row)

\* a clue as the site marks it up: the clue cell and, next to it, the
\* response cell (id ending in '_r') holding the correct response
ClueRow(round, cat, row) ==
    << Td(ClueId(round, cat, row), <<>>),
       Td(ClueId(round, cat, row) \o <<"_", "r">>, <<"a">>) >>

FinalRow == << Td(clue_FJ, <<>>), Td(clue_FJ \o <<"_", "r">>, <<"a">>) >>

\* the category_name cells of a full page: six per round and the final one
Categories13 == <<"J1", "J2", "J3", "J4", "J5", "J6",
                  "DJ1", "DJ2", "DJ3", "DJ4", "DJ5", "DJ6", "FJ">>

\* the date part of the game_title heading of episode id
TitleDate(id) == [weekday |-> "Monday", month |-> Months[id], day |-> id,
                  year |-> 2020]

Page(id, rows) == [status |-> "ok", titles |-> << <<TitleDate(id)>> >>,
                   categories |-> Categories13, rows |-> rows]

PageFull(id) == Page(id, << ClueRow(Round_J, 1, 2), FinalRow >>)
\* an episode the archive lists without any clue
PageEmpty(id) == Page(id, <<>>)
PageTimeout(id) == [Page(id, <<>>) EXCEPT !.status = "timeout"]
PageNoTitle(id) == [PageFull(id) EXCEPT !.titles = <<>>]
\* a response cell without its correct_response element
PageNoAnswer(id) ==
    Page(id, << <<Td(ClueId(Round_J, 1, 2), <<>>),
                  Td(ClueId(Round_J, 1, 2) \o <<"_", "r">>, <<>>)>> >>)
\* a clue cell whose response cell is missing
PageShortRow(id) == Page(id, << <<Td(ClueId(Round_J, 1, 2), <<>>)>> >>)

Pages(id) == {PageFull(id), PageEmpty(id), PageTimeout(id), PageNoTitle(id),
              PageNoAnswer(id), PageShortRow(id)}

-----------------------------------------------------------------------------
(* The dataset file and the error log *)

NoFile == [exists |-> FALSE, lines |-> <<>>]

SixColumns == <<"clue", "answer", "category", "value", "date", "game_id">>

\* the columns of the frame to_csv builds: those of pd.DataFrame(data), which
\* has none for an empty list, then 'date' and 'game_id'
frame_columns(data) ==
    (IF data = <<>> THEN <<>> ELSE <<"clue", "answer", "category", "value">>)
    \o <<"date", "game_id">>

frame_rows(game_info) ==
    LET date_str == strftime(game_info.date)
        data == game_info.clues
    IN [k \in 1..Len(data) |->
           [kind |-> "row",
            fields |-> <<data[k].clue, data[k].answer, data[k].category,
                         data[k].value, date_str, game_info.id>>]]

\* the header flag of to_csv
write_header(file) == ~file.exists

\* to_csv(game_info, csvfile): the file afterwards
to_csv(game_info, file) ==
    LET old == IF file.exists THEN file.lines ELSE <<>>
        head == IF write_header(file)
                THEN <<[kind |-> "header",
                        fields |-> frame_columns(game_info.clues)]>>
                ELSE <<>>
    IN [exists |-> TRUE, lines |-> old \o head \o frame_rows(game_info)]

\* the identifiers read, the one written last taken as unfinished
unique_but_last(s) ==
    IF s = <<>> THEN <<>>
    ELSE LET last == s[Len(s)]
             keep == {k \in 1..Len(s) :
                         s[k] # last /\ \A j \in 1..(k - 1) : s[j] # s[k]}
             Nth[n \in 1..Cardinality(keep)] ==
                 CHOOSE k \in keep : Cardinality({j \in keep : j <= k}) = n
         IN [n \in 1..Cardinality(keep) |-> s[Nth[n]]]

\* list(...unique()): first occurrences, in order
RECURSIVE unique(_)
unique(s) ==
    IF s = <<>> THEN <<>>
    ELSE LET rest == unique(SubSeq(s, 1, Len(s) - 1))
             last == s[Len(s)]
         IN IF \E k \in 1..Len(rest) : rest[k] = last THEN rest
            ELSE Append(rest, last)

\* pd.read_csv(csvfile)['game_id']: the first line names the columns; when the
\* first data line has more fields than that, the surplus leading fields are
\* taken as the index and the names apply to the trailing ones.
read_game_id(file) ==
    IF ~file.exists THEN [exc |-> "FileNotFoundError", val |-> <<>>]
    ELSE IF file.lines = <<>> THEN [exc |-> "EmptyDataError", val |-> <<>>]
    ELSE
    LET names == file.lines[1].fields
        body == Tail(file.lines)
        width == IF body = <<>> THEN Len(names) ELSE Len(body[1].fields)
        leading == IF width > Len(names) THEN width - Len(names) ELSE 0
        at == {k \in 1..Len(names) : names[k] = "game_id"}
    IN IF at = {} THEN [exc |-> "KeyError", val |-> <<>>]
       ELSE [exc |-> "none",
             val |-> [k \in 1..Len(body) |->
                         body[k].fields[leading + (CHOOSE p \in at : TRUE)]]]

\* list[::-1]
Reverse(s) == [k \in 1..Len(s) |-> s[Len(s) + 1 - k]]

InList(x, s) == \E k \in 1..Len(s) : s[k] = x

-----------------------------------------------------------------------------
(* scrape_all *)

\* the largest of the first n entries of o, 0 for none
RECURSIVE MaxOf(_, _)
MaxOf(o, n) == IF n = 0 THEN 0
               ELSE IF o[n] > MaxOf(o, n - 1) THEN o[n] ELSE MaxOf(o, n - 1)

\* the identifier orders id_order.json may hold: order_ids concatenates what
\* the season pages list and removes nothing, so an identifier may repeat.
\* Identifiers are numbered by their first occurrence in the order.
Orders == {o \in UNION {[1..n -> Ids] : n \in 1..MaxOrderLen} :
              \A k \in 1..Len(o) : o[k] <= MaxOf(o, k - 1) + 1}

Delays == {0, MainCrawlDelay}

NoProbe == [element |-> <<>>, categories |-> <<>>, out |-> Raise("unused")]

NoPrior == [written |-> {}, rows |-> {}, failed |-> {}]

Event(ev, id, n) == [ev |-> ev, id |-> id, n |-> n]

\* what the call that just ended adds to the record of earlier calls
PriorAfter ==
    LET Of(kind) == {events[k].id : k \in {j \in 1..Len(events) : events[j].ev = kind}}
    IN [written |-> prior.written \cup Of("write"),
        rows |-> prior.rows \cup
                 {events[k].id : k \in {j \in 1..Len(events) :
                                           events[j].ev = "write" /\ events[j].n > 0}},
        failed |-> prior.failed \cup Of("log")]

Init ==
    /\ id_order \in Orders
    /\ csv = NoFile
    /\ errlog = [exists |-> FALSE, entries |-> <<>>]
    /\ pc = "idle"
    /\ raised = "none"
    /\ resume = FALSE
    /\ crawl_delay = 0
    /\ done_ids = <<>>
    /\ ids = <<>>
    /\ idx = 0
    /\ events = <<>>
    /\ csv0 = NoFile
    /\ prior = NoPrior
    /\ runs = 0
    /\ probe = NoProbe

\* no call of scrape_all is under way
Returned == pc \in {"idle", "done", "raised", "interrupted"}

\* the condition of the fatal error, with the flag inverted
refuses_when_resuming(file, r) == file.exists /\ r

\* the condition of the fatal error

refuses(file, r) == file.exists /\ ~r

\* the lines of a call up to the loop, common to every way it goes on
Enter(r, d) ==
    /\ Returned
    /\ runs < MaxRuns
    /\ runs' = runs + 1
    /\ resume' = r
    /\ crawl_delay' = d
    /\ csv0' = csv
    /\ prior' = PriorAfter
    /\ events' = <<>>
    /\ idx' = 0
    /\ UNCHANGED <<id_order, csv, probe>>

\* scrape_all(csvfile, d, r) raises ValueError('csvfile already exists')
StartRefused(r, d) ==
    /\ Enter(r, d)
    /\ refuses(csv, r)
    /\ pc' = "raised"
    /\ raised' = "ValueError"
    /\ done_ids' = <<>>
    /\ ids' = <<>>
    /\ UNCHANGED errlog

\* resume is set and pd.read_csv(csvfile)['game_id'] raises
StartReadFails(r, d) ==
    /\ Enter(r, d)
    /\ ~refuses(csv, r)
    /\ r
    /\ read_game_id(csv).exc # "none"
    /\ pc' = "raised"
    /\ raised' = read_game_id(csv).exc
    /\ done_ids' = <<>>
    /\ ids' = <<>>
    /\ UNCHANGED errlog

\* the call gets to its loop: done_ids when resuming, the reversed order, the
\* error log deleted and created again
StartLoop(r, d) ==
    /\ Enter(r, d)
    /\ ~refuses(csv, r)
    /\ r => read_game_id(csv).exc = "none"
    /\ done_ids' = IF r THEN unique(read_game_id(csv).val) ELSE <<>>
    /\ ids' = Reverse(id_order)
    /\ errlog' = [exists |-> TRUE, entries |-> <<>>]
    /\ pc' = "loop"
    /\ raised' = "none"

InLoop == pc = "loop" /\ idx < Len(ids)

game_id == ids[idx + 1]

\* the loop without its test: nothing is skipped
skips_never(id) == FALSE

\* the test that skips an identifier

skips(id) == resume /\ InList(id, done_ids)

Skip ==
    /\ InLoop
    /\ skips(game_id)
    /\ idx' = idx + 1
    /\ events' = Append(events, Event("skip", game_id, 0))
    /\ UNCHANGED <<id_order, csv, errlog, pc, raised, resume, crawl_delay,
                   done_ids, ids, csv0, prior, runs, probe>>

\* the events of the tail of an iteration that wrote n rows
after_write(id, n) ==
    <<Event("write", id, n)>> \o
    (IF crawl_delay > 0 THEN <<Event("sleep", id, 0)>> ELSE <<>>)

\* the error log after the except clause
logged(id, e) ==
    [errlog EXCEPT !.entries = Append(@, [id |-> id, desc |-> e])]

\* the tail of an iteration whose scrape_episode returned game_info
Written(game_info) ==
    /\ game_info.exc = "none"
    /\ csv' = to_csv(game_info, csv)
    /\ events' = events \o <<Event("fetch", game_info.id, 0)>>
                        \o after_write(game_info.id, Len(game_info.clues))
    /\ idx' = idx + 1
    /\ UNCHANGED <<id_order, errlog, pc, raised, resume, crawl_delay,
                   done_ids, ids, csv0, prior, runs, probe>>

\* the episode is fetched, extracted and written
EpisodeWritten(page) ==
    /\ InLoop
    /\ ~skips(game_id)
    /\ Written(scrape_episode(game_id, page))

\* the episode is fetched and extracted, and to_csv raises (an I/O error):
\* the call is outside the try statement, the exception leaves scrape_all
EpisodeWriteFails(page) ==
    /\ InLoop
    /\ ~skips(game_id)
    /\ scrape_episode(game_id, page).exc = "none"
    /\ events' = Append(events, Event("fetch", game_id, 0))
    /\ pc' = "raised"
    /\ raised' = "OSError"
    /\ UNCHANGED <<id_order, csv, errlog, resume, crawl_delay,
                   done_ids, ids, idx, csv0, prior, runs, probe>>

\* the except clause of the loop for the exception e
Failed(e) ==
    /\ e \notin {"none", "breakpoint"}
    /\ errlog' = logged(game_id, e)
    /\ events' = events \o <<Event("fetch", game_id, 0), Event("log", game_id, 0)>>
    /\ idx' = idx + 1
    /\ UNCHANGED <<id_order, csv, pc, raised, resume, crawl_delay,
                   done_ids, ids, csv0, prior, runs, probe>>

\* scrape_episode raises: the except clause logs it and continues
EpisodeFails(page) ==
    /\ InLoop
    /\ ~skips(game_id)
    /\ Failed(scrape_episode(game_id, page).exc)

\* format_clue calls breakpoint(): the process waits in the debugger
EpisodeBreakpoint(page) ==
    /\ InLoop
    /\ ~skips(game_id)
    /\ scrape_episode(game_id, page).exc = "breakpoint"
    /\ events' = Append(events, Event("fetch", game_id, 0))
    /\ pc' = "debugger"
    /\ UNCHANGED <<id_order, csv, errlog, raised, resume, crawl_delay,
                   done_ids, ids, idx, csv0, prior, runs, probe>>

\* the debugger is left: with 'continue' the next line reads the unbound
\* local response, with 'quit' the debugger raises BdbQuit; both are
\* Exceptions, logged by the except clause of scrape_all
DebuggerReturns(e) ==
    /\ pc = "debugger"
    /\ errlog' = logged(game_id, e)
    /\ events' = Append(events, Event("log", game_id, 0))
    /\ idx' = idx + 1
    /\ pc' = "loop"
    /\ UNCHANGED <<id_order, csv, raised, resume, crawl_delay,
                   done_ids, ids, csv0, prior, runs, probe>>

\* the loop is over
Finish ==
    /\ pc = "loop"
    /\ idx = Len(ids)
    /\ pc' = "done"
    /\ UNCHANGED <<id_order, csv, errlog, raised, resume, crawl_delay,
                   done_ids, ids, idx, events, csv0, prior, runs, probe>>

\* the process is ended from outside
Interrupt ==
    /\ pc \in {"loop", "debugger"}
    /\ pc' = "interrupted"
    /\ UNCHANGED <<id_order, csv, errlog, raised, resume, crawl_delay,
                   done_ids, ids, idx, events, csv0, prior, runs, probe>>

\* what the program does by itself once a call is under way
Step ==
    \/ Skip
    \/ InLoop /\ \E page \in Pages(game_id) : EpisodeWritten(page)
    \/ InLoop /\ \E page \in Pages(game_id) : EpisodeWriteFails(page)
    \/ InLoop /\ \E page \in Pages(game_id) : EpisodeFails(page)
    \/ InLoop /\ \E page \in Pages(game_id) : EpisodeBreakpoint(page)
    \/ Finish

Next ==
    \/ \E r \in BOOLEAN, d \in Delays : StartRefused(r, d)
    \/ \E r \in BOOLEAN, d \in Delays : StartReadFails(r, d)
    \/ \E r \in BOOLEAN, d \in Delays : StartLoop(r, d)
    \/ Step
    \/ \E e \in {"UnboundLocalError", "BdbQuit"} : DebuggerReturns(e)
    \/ Interrupt

Spec == Init /\ [][Next]_vars

\* The interpreter runs the program on: a call under way takes its next step.
\* Nothing makes the debugger return.
FairSpec == Spec /\ WF_vars(Step)

-----------------------------------------------------------------------------
(* format_clue on its own *)

ProbeElements ==
    {ClueRow(round, cat, row) :
        round \in {Round_J, Round_DJ}, cat \in 0..MaxIndex, row \in 0..MaxIndex}
    \cup {FinalRow,
          \* a tiebreaker clue, whose id has two parts
          << Td(Chars_clue \o <<"_", "T", "B">>, <<>>),
             Td(Chars_clue \o <<"_", "T", "B", "_", "r">>, <<"a">>) >>,
          << Td(ClueId(Round_J, 1, 2), <<>>),
             Td(ClueId(Round_J, 1, 2) \o <<"_", "r">>, <<>>) >>,
          << Td(ClueId(Round_J, 1, 2), <<>>) >>}

\* a full page's categories, and those of a page that stops after the
\* first round
ProbeCategories == {Categories13, SubSeq(Categories13, 1, RoundOffset)}

InitFmt ==
    /\ id_order = <<1>>
    /\ csv = NoFile
    /\ errlog = [exists |-> FALSE, entries |-> <<>>]
    /\ pc = "idle"
    /\ raised = "none"
    /\ resume = FALSE
    /\ crawl_delay = 0
    /\ done_ids = <<>>
    /\ ids = <<>>
    /\ idx = 0
    /\ events = <<>>
    /\ csv0 = NoFile
    /\ prior = NoPrior
    /\ runs = 0
    /\ probe \in [element : ProbeElements, categories : ProbeCategories,
                  out : {Raise("pending")}]

FormatClue ==
    /\ probe.out.exc = "pending"
    /\ probe' = [probe EXCEPT !.out = format_clue(probe.element, probe.categories)]
    /\ UNCHANGED <<id_order, csv, errlog, pc, raised, resume, crawl_delay,
                   done_ids, ids, idx, events, csv0, prior, runs>>

NextFmt == FormatClue

SpecFmt == InitFmt /\ [][NextFmt]_vars

-----------------------------------------------------------------------------
(* Properties *)

\* the identifiers that have a row in a dataset file
RowIds(file) ==
    {file.lines[k].fields[6] :
        k \in {j \in 1..Len(file.lines) : file.lines[j].kind = "row"}}

\* the lines the current call has appended to the dataset
Appended == {k \in 1..Len(csv.lines) : k > Len(csv0.lines)}

EventsOf(kind) == {k \in 1..Len(events) : events[k].ev = kind}

\* a call of scrape_all begins in this step
Begins == Returned /\ runs' = runs + 1

\* C1: a call with resume=True appends no row whose episode identifier had a
\* row in the dataset when the call began.
C1_ResumeAppendsNoRowOfDoneEpisode ==
    (runs > 0 /\ resume) =>
        \A k \in Appended :
            csv.lines[k].kind = "row" => csv.lines[k].fields[6] \notin RowIds(csv0)

\* a resumed call is over, it found rows of one episode, skipped it and
\* appended rows of another
C1_Witness ==
    /\ pc = "done"
    /\ resume
    /\ RowIds(csv0) # {}
    /\ EventsOf("skip") # {}
    /\ \E k \in Appended : csv.lines[k].kind = "row"

\* C2: a call that finds the output file and has resume disabled ends with
\* the fatal error at once: nothing is fetched, the dataset and the error log
\* stay as they were.
C2_ExistingFileWithoutResumeAbortsUntouched ==
    [][(Begins /\ csv.exists /\ ~resume') =>
          /\ pc' = "raised"
          /\ raised' = "ValueError"
          /\ csv' = csv
          /\ errlog' = errlog
          /\ events' = <<>>]_vars

\* the call was refused and the log of the call before it is still there
C2_Witness ==
    /\ pc = "raised"
    /\ raised = "ValueError"
    /\ csv.exists
    /\ ~resume
    /\ events = <<>>
    /\ errlog.entries # <<>>

\* C3: an episode whose extraction fails, here on a clue row that lacks its
\* response cell, gets its entry in the error log and the run goes on to
\* the next identifier.
C3_FailedEpisodeIsLoggedAndRunGoesOn ==
    (pc = "debugger") ~> (pc \in {"loop", "interrupted"})

\* C4: every call but one that finds the output file with resume disabled
\* recreates the error log and enters the loop over the identifiers.
C4_OnlyExistingFileWithoutResumeAborts ==
    [][(Begins /\ ~(csv.exists /\ ~resume')) =>
          /\ pc' = "loop"
          /\ errlog' = [exists |-> TRUE, entries |-> <<>>]]_vars

\* C5: once a call has passed the start-up check, no failure on a single
\* episode ends it: the only exceptions that leave scrape_all are raised
\* before the first identifier is taken.
C5_NoEpisodeFailureEndsTheRun ==
    pc = "raised" => events = <<>>

\* the category index of a clue of the given round
ListIndex(round, cat) == IF round = Round_DJ THEN cat + 6 ELSE cat

Doubling(round) == IF round = Round_DJ THEN 2 ELSE 1

Formatted == probe.out.exc \notin {"pending", "unused"}

\* C6, as stated: the value is 200 times (row number + 1), doubled in the
\* second round, and the category is the one at the category number (plus 6
\* in the second round) in the list.
C6_ValueIsTwoHundredTimesRowPlusOne ==
    \A round \in {Round_J, Round_DJ}, cat \in 0..MaxIndex, row \in 0..MaxIndex :
        (/\ Formatted
         /\ probe.element = ClueRow(round, cat, row)
         /\ ListIndex(round, cat) < Len(probe.categories)) =>
            /\ probe.out.exc = "none"
            /\ probe.out.value = 200 * (row + 1) * Doubling(round)
            /\ probe.out.category = probe.categories[ListIndex(round, cat) + 1]

\* C6, amended: the value is 200 times the row number written in the
\* identifier, doubled in the second round; the category is the one at the
\* category number written in the identifier (plus 6 in the second round),
\* and a number past the end of the list raises IndexError.
C6_ValueIsTwoHundredTimesRowNumber ==
    \A round \in {Round_J, Round_DJ}, cat \in 0..MaxIndex, row \in 0..MaxIndex :
        (Formatted /\ probe.element = ClueRow(round, cat, row)) =>
            IF ListIndex(round, cat) < Len(probe.categories)
            THEN /\ probe.out.exc = "none"
                 /\ probe.out.value = 200 * row * Doubling(round)
                 /\ probe.out.category = probe.categories[ListIndex(round, cat) + 1]
            ELSE probe.out.exc = "IndexError"

\* the clue of category 2, row 3 of the second round is worth 1200
C6_Witness ==
    /\ probe.element = ClueRow(Round_DJ, 2, 3)
    /\ probe.categories = Categories13
    /\ probe.out.exc = "none"
    /\ probe.out.value = 1200
    /\ probe.out.category = "DJ3"

\* C7: with a crawl delay set, two fetches of a call always have a sleep
\* between them.
C7_SleepBetweenFetches ==
    crawl_delay > 0 =>
        \A i \in EventsOf("fetch"), j \in EventsOf("fetch") :
            i < j => \E k \in EventsOf("sleep") : i < k /\ k < j

\* C8: the dataset file starts with the one header line, which names the six
\* columns; every other line is a clue row that carries the identifier and
\* the air date of its episode.
C8_OneHeaderOfSixColumnsThenRows ==
    csv.exists =>
        /\ Len(csv.lines) >= 1
        /\ csv.lines[1].kind = "header"
        /\ csv.lines[1].fields = SixColumns
        /\ \A k \in 2..Len(csv.lines) :
              /\ csv.lines[k].kind = "row"
              /\ Len(csv.lines[k].fields) = 6
              /\ csv.lines[k].fields[6] \in Ids
              /\ csv.lines[k].fields[5] =
                    strftime(strptime(TitleDate(csv.lines[k].fields[6])))

\* what a resumed call did first with each identifier it came to
Decisions == EventsOf("skip") \cup EventsOf("fetch")

\* C9, as stated: a resumed call skips exactly the identifiers that an
\* earlier call fetched, extracted and wrote.
C9_SkippedIffWrittenBefore ==
    (runs > 0 /\ resume) =>
        \A k \in Decisions :
            events[k].ev = "skip" <=> events[k].id \in prior.written

\* C9, amended: a resumed call skips exactly the identifiers for which an
\* earlier call wrote at least one row; it fetches again those that failed,
\* those never attempted and those written with an empty clue list.
C9_SkippedIffRowsWrittenBefore ==
    (runs > 0 /\ resume) =>
        \A k \in Decisions :
            events[k].ev = "skip" <=> events[k].id \in prior.rows

\* a resumed call skips an episode written before and fetches again one
\* that failed before
C9_Witness ==
    /\ resume
    /\ pc = "done"
    /\ \E k \in EventsOf("skip") : events[k].id \in prior.written
    /\ \E k \in EventsOf("fetch") : events[k].id \in prior.failed \ prior.written

\* C10: in one call the rows of an episode are appended at most once.
C10_RowsOfAnEpisodeAppendedOnce ==
    \A id \in Ids :
        Cardinality({k \in EventsOf("write") :
                        events[k].id = id /\ events[k].n > 0}) <= 1

====
